---- MODULE Spec2Model ----
(***************************************************************************)
(* Model of the gozip ZIP engine: the ZipWriter (AddFile / Close) that     *)
(* streams local records, a central directory and a trailer to a sink, and *)
(* the reader path (findEOCD, parseEOCD, readCentralDirectoryEntry,        *)
(* readLocalFileHeader, extractFile, ReadZip) over a byte source.          *)
(*                                                                         *)
(* Bytes are naturals 0..255, a byte string is a sequence of bytes.        *)
(* 16-bit values are naturals; 32-bit values that may exceed 2^31-1 (the   *)
(* CRC-32, the external attribute word) are kept as their four             *)
(* little-endian bytes, sizes and offsets as naturals truncated through    *)
(* their little-endian encoding.                                           *)
(***************************************************************************)
EXTENDS Integers, Sequences, FiniteSets, TLC

\* ------------------------------------------------------------------ bounds
MaxFiles == 2

\* ------------------------------------------------------- format constants
EOCDMinSize == 22
LocalFileHeaderSignature == 67324752
CentralDirectorySignature == 33639248
EndOfCentralDirectorySignature == 101010256
maxCommentSize == 65535
MaxNameLen == 65535
UTF8Flag == 2048
DataDescriptorFlag == 8
MethodDeflate == 8

\* ------------------------------------------------------------- bit helpers
RECURSIVE BitAnd(_, _)
BitAnd(a, b) ==
    IF a = 0 \/ b = 0 THEN 0
    ELSE (IF a % 2 = 1 /\ b % 2 = 1 THEN 1 ELSE 0) + 2 * BitAnd(a \div 2, b \div 2)

RECURSIVE BitOr(_, _)
BitOr(a, b) ==
    IF a = 0 THEN b
    ELSE IF b = 0 THEN a
    ELSE (IF a % 2 = 1 \/ b % 2 = 1 THEN 1 ELSE 0) + 2 * BitOr(a \div 2, b \div 2)

RECURSIVE BitXor(_, _)
BitXor(a, b) ==
    IF a = 0 THEN b
    ELSE IF b = 0 THEN a
    ELSE ((a + b) % 2) + 2 * BitXor(a \div 2, b \div 2)

\* uint16(v)
U16(v) == v % 65536

\* binary.Write(w, binary.LittleEndian, uint16(v))
LE16(v) == << v % 256, (v \div 256) % 256 >>

\* binary.Write(w, binary.LittleEndian, uint32(v)): the low four bytes of v
LE32(v) == << v % 256, (v \div 256) % 256, (v \div 65536) % 256, (v \div 16777216) % 256 >>

\* binary.Read of a little-endian uint16 / uint32 from the bytes b
DecLE16(b) == b[1] + 256 * b[2]
DecLE32(b) == b[1] + 256 * b[2] + 65536 * b[3] + 16777216 * b[4]

\* uint32(v)
U32(v) == DecLE32(LE32(v))

RECURSIVE Concat(_)
Concat(ss) == IF ss = << >> THEN << >> ELSE Head(ss) \o Concat(Tail(ss))

\* ------------------------------------------------------------------ CRC-32
\* crc32.ChecksumIEEE, reflected polynomial 0xEDB88320, on a register kept as
\* two 16-bit halves [hi, lo].
CrcPolyHi == 60856
CrcPolyLo == 33568

CrcShift(r) ==
    LET lo1 == (r.lo \div 2) + (r.hi % 2) * 32768
        hi1 == r.hi \div 2
    IN  IF r.lo % 2 = 1
        THEN [hi |-> BitXor(hi1, CrcPolyHi), lo |-> BitXor(lo1, CrcPolyLo)]
        ELSE [hi |-> hi1, lo |-> lo1]

CrcByte(r, b) ==
    LET r0 == [hi |-> r.hi, lo |-> BitXor(r.lo, b)]
    IN  CrcShift(CrcShift(CrcShift(CrcShift(CrcShift(CrcShift(CrcShift(CrcShift(r0))))))))

RECURSIVE CrcFold(_, _, _)
CrcFold(r, data, k) ==
    IF k > Len(data) THEN r ELSE CrcFold(CrcByte(r, data[k]), data, k + 1)

\* the checksum as the four little-endian bytes binary.Write emits for it
ChecksumIEEE(data) ==
    LET r == CrcFold([hi |-> 65535, lo |-> 65535], data, 1)
        hi == BitXor(r.hi, 65535)
        lo == BitXor(r.lo, 65535)
    IN  LE16(lo) \o LE16(hi)

\* the checksums of the payloads of this model, computed once
ChecksumTable == [d \in { << >>, << 80, 75, 5, 6 >> } |-> ChecksumIEEE(d)]

\* ------------------------------------------------------------------- UTF-8
\* utf8.ValidString: well-formed 1..4 byte sequences, no overlongs, no
\* surrogates, nothing above U+10FFFF.
IsCont(b) == b >= 128 /\ b <= 191

RECURSIVE ValidFrom(_, _)
ValidFrom(s, k) ==
    IF k > Len(s) THEN TRUE
    ELSE LET b == s[k]
             n == Len(s)
         IN  IF b < 128 THEN ValidFrom(s, k + 1)
             ELSE IF b >= 194 /\ b <= 223
                  THEN k + 1 <= n /\ IsCont(s[k + 1]) /\ ValidFrom(s, k + 2)
             ELSE IF b >= 224 /\ b <= 239
                  THEN /\ k + 2 <= n
                       /\ s[k + 1] >= (IF b = 224 THEN 160 ELSE 128)
                       /\ s[k + 1] <= (IF b = 237 THEN 159 ELSE 191)
                       /\ IsCont(s[k + 2])
                       /\ ValidFrom(s, k + 3)
             ELSE IF b >= 240 /\ b <= 244
                  THEN /\ k + 3 <= n
                       /\ s[k + 1] >= (IF b = 240 THEN 144 ELSE 128)
                       /\ s[k + 1] <= (IF b = 244 THEN 143 ELSE 191)
                       /\ IsCont(s[k + 2])
                       /\ IsCont(s[k + 3])
                       /\ ValidFrom(s, k + 4)
             ELSE FALSE

isValidUTF8(s) == ValidFrom(s, 1)

\* --------------------------------------------------------------- timestamp
\* timeToMSDos(t) for t = [year, month, day, hour, minute, second]
timeToMSDos(t) ==
    LET y    == t.year - 1980
        year == IF y < 0 THEN 0 ELSE y
    IN  [ dosDate |-> U16(BitOr(BitOr(year * 512, t.month * 32), t.day)),
          dosTime |-> U16(BitOr(BitOr(t.hour * 2048, t.minute * 32), t.second \div 2)) ]

\* ------------------------------------------------------------------ inputs
\* names handed to AddFile: "é" (two-byte UTF-8), the single byte 0xFF (not
\* valid UTF-8), "__MACOSX/x", the empty name and a 65536-byte name; "a" is
\* the name in archives of other writers.
NameA == << 97 >>
NameUtf == << 195, 169 >>
NameBad == << 255 >>
NameMac == << 95, 95, 77, 65, 67, 79, 83, 88, 47, 120 >>
NameEmpty == << >>
NameLong == [k \in 1..(MaxNameLen + 1) |-> 97]
Names == { NameUtf, NameBad, NameMac, NameEmpty, NameLong }

\* payloads: a nil slice, an empty slice, and four bytes that spell the
\* trailer signature.
EOCDSigBytes == << 80, 75, 5, 6 >>
Nil == [nil |-> TRUE, bytes |-> << >>]
Bytes(b) == [nil |-> FALSE, bytes |-> b]
Datas == { Nil, Bytes(<< >>), Bytes(EOCDSigBytes) }

\* wall-clock readings of time.Now()
Times == { [year |-> 2023, month |-> 12, day |-> 25, hour |-> 14, minute |-> 30, second |-> 45],
           [year |-> 2024, month |-> 2, day |-> 29, hour |-> 23, minute |-> 59, second |-> 58] }

\* a sink either never fails (NoLimit) or accepts n bytes in total and fails
\* every write that would exceed them; a transient sink fails one such write
\* and accepts every write after it
NoLimit == [bounded |-> FALSE, n |-> 0, transient |-> FALSE]
SinkLimits ==
    { NoLimit } \cup
    { [bounded |-> TRUE, n |-> k, transient |-> FALSE] :
        k \in { 0, 4, 6, 8, 10, 12, 14, 16, 18, 22, 26, 28, 30, 31, 32, 40, 60, 100 } } \cup
    { [bounded |-> TRUE, n |-> k, transient |-> TRUE] : k \in { 0, 4, 16, 30, 31, 40, 60 } }

\* the sink after a write has failed
AfterFailure(lim) == IF lim.transient THEN NoLimit ELSE lim

\* -------------------------------------------------------------------- sink
\* one Write call on the io.Writer
SinkWrite(snk, lim, b) ==
    IF lim.bounded /\ Len(snk) + Len(b) > lim.n
    THEN [ok |-> FALSE, sink |-> snk]
    ELSE [ok |-> TRUE, sink |-> snk \o b]

RECURSIVE WriteAll(_, _, _), WriteAll_KeepGoing(_, _, _)

\* a run of writes that goes on after a failed one and reports the failure at
\* the end
WriteAll_KeepGoing(snk, lim, chunks) ==
    IF chunks = << >> THEN [ok |-> TRUE, sink |-> snk]
    ELSE LET r    == SinkWrite(snk, lim, Head(chunks))
             rest == WriteAll_KeepGoing(r.sink, lim, Tail(chunks))
         IN  [ok |-> r.ok /\ rest.ok, sink |-> rest.sink]

\* a run of "if err := write(...); err != nil { return err }" statements
WriteAll(snk, lim, chunks) ==
    IF chunks = << >> THEN [ok |-> TRUE, sink |-> snk]
    ELSE LET r == SinkWrite(snk, lim, Head(chunks))
         IN  IF r.ok THEN WriteAll(r.sink, lim, Tail(chunks)) ELSE r

\* ------------------------------------------------------------------ writer
\* the validation without the nil check
ValidateAddFile_NoNilCheck(name, data) ==
    IF name = << >> THEN "zip filename is empty"
    ELSE IF Len(name) > MaxNameLen THEN "zip filename is too long (max 65535 bytes)"
    ELSE ""

\* the validation at the head of AddFile: "" when the arguments are accepted
ValidateAddFile(name, data) ==
    IF name = << >> THEN "zip filename is empty"
    ELSE IF Len(name) > MaxNameLen THEN "zip filename is too long (max 65535 bytes)"
    ELSE IF data.nil THEN "data cannot be nil"
    ELSE ""

\* flags written into the local record
LocalFlags(name) == IF isValidUTF8(name) THEN BitOr(0, UTF8Flag) ELSE 0

\* flags saved in the fileRecord, written into the central directory record
RecordFlags(name) == UTF8Flag

\* the writes of AddFile, in order
LocalChunks(name, data, dos, crc) ==
    << LE32(LocalFileHeaderSignature),
       LE16(20),
       LE16(LocalFlags(name)),
       LE16(0),
       LE16(dos.dosTime),
       LE16(dos.dosDate),
       crc,
       LE32(Len(data)),
       LE32(Len(data)),
       LE16(U16(Len(name))),
       LE16(0),
       name,
       data >>

\* the local record size counted without the name bytes
LocalRecordSize_NoName(name, data) == 4 + 26 + Len(data)

\* bytes AddFile adds to the running offset
LocalRecordSize(name, data) == 4 + 26 + Len(name) + Len(data)

\* the fileRecord AddFile saves
MakeRecord(name, data, dos, crc, headerOffset) ==
    [ name              |-> name,
      versionMadeBy     |-> 788,
      versionNeeded     |-> 20,
      flags             |-> RecordFlags(name),
      compressionMethod |-> 0,
      modTime           |-> dos.dosTime,
      modDate           |-> dos.dosDate,
      crc32             |-> crc,
      compressedSize    |-> U32(Len(data)),
      uncompressedSize  |-> U32(Len(data)),
      diskNumberStart   |-> 0,
      internalAttrs     |-> 0,
      externalAttrs     |-> << 0, 0, 164, 129 >>,
      localHeaderOffset |-> headerOffset ]

\* the writes of Close for one fileRecord, in order
CentralChunks(f) ==
    << LE32(CentralDirectorySignature),
       LE16(f.versionMadeBy),
       LE16(f.versionNeeded),
       LE16(f.flags),
       LE16(f.compressionMethod),
       LE16(f.modTime),
       LE16(f.modDate),
       f.crc32,
       LE32(f.compressedSize),
       LE32(f.uncompressedSize),
       LE16(U16(Len(f.name))),
       LE16(0),
       LE16(0),
       LE16(f.diskNumberStart),
       LE16(f.internalAttrs),
       f.externalAttrs,
       LE32(f.localHeaderOffset),
       f.name >>

\* the directory record size counted without the four signature bytes
CentralRecordSize_NoSignature(name) == 42 + Len(name)

\* bytes Close adds to the running offset per record
CentralRecordSize(name) == 4 + 42 + Len(name)

\* the loop of Close over zw.files
RECURSIVE CloseDirectory(_, _, _, _)
CloseDirectory(snk, lim, off, fs) ==
    IF fs = << >> THEN [ok |-> TRUE, sink |-> snk, offset |-> off]
    ELSE LET r == WriteAll(snk, lim, CentralChunks(Head(fs)))
         IN  IF ~r.ok THEN [ok |-> FALSE, sink |-> r.sink, offset |-> off]
             ELSE CloseDirectory(r.sink, lim, off + CentralRecordSize(Head(fs).name), Tail(fs))

\* a trailer whose entries-on-disk field is written as 0, like the disk numbers
TrailerChunks_DiskCountZero(n, centralDirSize, centralDirOffset) ==
    << LE32(EndOfCentralDirectorySignature), LE16(0), LE16(0), LE16(0), LE16(U16(n)),
       LE32(centralDirSize), LE32(centralDirOffset), LE16(0) >>

\* the writes of the trailer
TrailerChunks(n, centralDirSize, centralDirOffset) ==
    << LE32(EndOfCentralDirectorySignature),
       LE16(0),
       LE16(0),
       LE16(U16(n)),
       LE16(U16(n)),
       LE32(centralDirSize),
       LE32(centralDirOffset),
       LE16(0) >>

\* Close as a whole: the sink and offset it leaves, and where in the sink
\* the trailer began (eocdAt, -1 when the directory loop failed)
CloseRun(snk, lim, off, fs) ==
    LET centralDirOffset == off
        d == CloseDirectory(snk, lim, off, fs)
    IN  IF ~d.ok THEN [ok |-> FALSE, sink |-> d.sink, offset |-> d.offset, eocdAt |-> -1]
        ELSE LET centralDirSize == d.offset - centralDirOffset
                 t == WriteAll(d.sink, lim, TrailerChunks(Len(fs), centralDirSize, centralDirOffset))
             IN  [ok |-> t.ok, sink |-> t.sink, offset |-> d.offset, eocdAt |-> Len(d.sink)]

\* ------------------------------------------------------------- byte source
Min(a, b) == IF a < b THEN a ELSE b
Max(a, b) == IF a > b THEN a ELSE b
Zeros(n) == [k \in 1..n |-> 0]

\* bytes of f available at the 0-based position pos, at most n of them
Avail(f, pos, n) == Max(0, Min(n, Len(f) - pos))

\* file.Read(buf) with len(buf) = n at position pos: a zero-length read
\* succeeds, a read at end of file fails with io.EOF, a short read succeeds
\* and leaves the rest of buf zero.
FileRead(f, pos, n) ==
    LET a == Avail(f, pos, n)
    IN  IF n = 0 THEN [err |-> FALSE, n |-> 0, buf |-> << >>]
        ELSE IF a = 0 THEN [err |-> TRUE, n |-> 0, buf |-> Zeros(n)]
        ELSE [err |-> FALSE, n |-> a, buf |-> SubSeq(f, pos + 1, pos + a) \o Zeros(n - a)]

\* binary.Read(file, ...) of n bytes at position pos: io.ReadFull, so a short
\* read is an error and nothing is decoded.
BinaryRead(f, pos, n) ==
    LET a == Avail(f, pos, n)
    IN  IF a < n THEN [err |-> TRUE, n |-> a, buf |-> Zeros(n)]
        ELSE [err |-> FALSE, n |-> n, buf |-> SubSeq(f, pos + 1, pos + n)]

Field16(b, k) == DecLE16(SubSeq(b, k, k + 1))
Field32(b, k) == DecLE32(SubSeq(b, k, k + 3))

\* bytes.LastIndex(buf, sep) for a four-byte sep: -1 when sep does not occur
LastIndex(buf, sep) ==
    LET hits == { k \in 0..(Len(buf) - 4) :
                    /\ buf[k + 1] = sep[1]
                    /\ buf[k + 2] = sep[2]
                    /\ buf[k + 3] = sep[3]
                    /\ buf[k + 4] = sep[4] }
    IN  IF hits = {} THEN -1 ELSE CHOOSE k \in hits : \A j \in hits : j <= k

\* strings.HasPrefix(s, prefix)
HasPrefix_Exact(s, prefix) == s = prefix
HasPrefix(s, prefix) == Len(s) >= Len(prefix) /\ SubSeq(s, 1, Len(prefix)) = prefix

MacPrefix == << 95, 95, 77, 65, 67, 79, 83, 88, 47 >>

\* ------------------------------------------------------------------ reader
\* the test that decides whether LastIndex found the trailer
SigFound(sigPos) == sigPos > 0

findEOCD(f) ==
    LET fileSize == Len(f)
        start0 == fileSize - EOCDMinSize - maxCommentSize
        searchStart == IF start0 < 0 THEN 0 ELSE start0
        buf == SubSeq(f, searchStart + 1, fileSize)
        sigPos == LastIndex(buf, EOCDSigBytes)
    IN  IF fileSize < EOCDMinSize THEN [err |-> "file too small", pos |-> 0]
        ELSE IF SigFound(sigPos) THEN [err |-> "", pos |-> searchStart + sigPos]
        ELSE [err |-> "EOCD signature not found", pos |-> 0]

NoEOCD ==
    [ DiskNumber |-> 0, DiskWithCDStart |-> 0, EntriesOnDisk |-> 0, TotalEntries |-> 0,
      CentralDirSize |-> 0, CentralDirOffset |-> 0, CommentLength |-> 0, Comment |-> << >> ]

parseEOCD(f, offset) ==
    LET r == FileRead(f, offset, EOCDMinSize)
        b == r.buf
        commentLength == Field16(b, 21)
        c == FileRead(f, offset + r.n, commentLength)
    IN  IF r.err THEN [err |-> "EOF", eocd |-> NoEOCD]
        ELSE IF commentLength > 0 /\ c.err THEN [err |-> "EOF", eocd |-> NoEOCD]
        ELSE [ err |-> "",
               eocd |-> [ DiskNumber       |-> Field16(b, 5),
                          DiskWithCDStart  |-> Field16(b, 7),
                          EntriesOnDisk    |-> Field16(b, 9),
                          TotalEntries     |-> Field16(b, 11),
                          CentralDirSize   |-> Field32(b, 13),
                          CentralDirOffset |-> Field32(b, 17),
                          CommentLength    |-> commentLength,
                          Comment          |-> c.buf ] ]

NoCD ==
    [ VersionMadeBy |-> 0, VersionNeeded |-> 0, Flags |-> 0, CompressionMethod |-> 0,
      LastModTime |-> 0, LastModDate |-> 0, CRC32 |-> << 0, 0, 0, 0 >>,
      CompressedSize |-> 0, UncompressedSize |-> 0, FilenameLength |-> 0,
      ExtraFieldLength |-> 0, CommentLength |-> 0, DiskNumberStart |-> 0,
      InternalAttributes |-> 0, ExternalAttributes |-> << 0, 0, 0, 0 >>,
      LocalHeaderOffset |-> 0, Filename |-> << >>, ExtraField |-> << >>, Comment |-> << >> ]

\* the next record's offset as readCentralDirectoryEntry computes it: the
\* three lengths are added as uint16 before the conversion to int64
NextCDOffset(offset, n, e, c) == offset + 4 + 42 + U16(n + e + c)

readCentralDirectoryEntry(f, offset) ==
    LET sg == BinaryRead(f, offset, 4)
        fx == BinaryRead(f, offset + 4, 42)
        b  == fx.buf
        n  == Field16(b, 25)
        e  == Field16(b, 27)
        c  == Field16(b, 29)
        rn == FileRead(f, offset + 46, n)
        re == FileRead(f, offset + 46 + rn.n, e)
        rc == FileRead(f, offset + 46 + rn.n + re.n, c)
        fail(msg) == [err |-> msg, cd |-> NoCD, nextOffset |-> 0]
    IN  IF sg.err THEN fail("EOF")
        ELSE IF sg.buf # LE32(CentralDirectorySignature) THEN fail("invalid signature")
        ELSE IF fx.err THEN fail("EOF")
        ELSE IF rn.err THEN fail("EOF")
        ELSE IF re.err THEN fail("EOF")
        ELSE IF rc.err THEN fail("EOF")
        ELSE [ err |-> "",
               cd  |-> [ VersionMadeBy      |-> Field16(b, 1),
                         VersionNeeded      |-> Field16(b, 3),
                         Flags              |-> Field16(b, 5),
                         CompressionMethod  |-> Field16(b, 7),
                         LastModTime        |-> Field16(b, 9),
                         LastModDate        |-> Field16(b, 11),
                         CRC32              |-> SubSeq(b, 13, 16),
                         CompressedSize     |-> Field32(b, 17),
                         UncompressedSize   |-> Field32(b, 21),
                         FilenameLength     |-> n,
                         ExtraFieldLength   |-> e,
                         CommentLength      |-> c,
                         DiskNumberStart    |-> Field16(b, 31),
                         InternalAttributes |-> Field16(b, 33),
                         ExternalAttributes |-> SubSeq(b, 35, 38),
                         LocalHeaderOffset  |-> Field32(b, 39),
                         Filename           |-> rn.buf,
                         ExtraField         |-> re.buf,
                         Comment            |-> rc.buf ],
               nextOffset |-> NextCDOffset(offset, n, e, c) ]

NoLH ==
    [ VersionNeeded |-> 0, Flags |-> 0, CompressionMethod |-> 0, LastModTime |-> 0,
      LastModDate |-> 0, CRC32 |-> << 0, 0, 0, 0 >>, CompressedSize |-> 0,
      UncompressedSize |-> 0, FilenameLength |-> 0, ExtraFieldLength |-> 0,
      Filename |-> << >>, ExtraField |-> << >> ]

\* the payload offset computed without the four signature bytes
DataOffset_NoSignature(offset, n, e) == offset + 26 + U16(n + e)

\* the payload offset as readLocalFileHeader computes it
DataOffset(offset, n, e) == offset + 4 + 26 + U16(n + e)

readLocalFileHeader(f, offset) ==
    LET sg == BinaryRead(f, offset, 4)
        \* the error of the signature read is dropped: signature stays 0
        signature == IF sg.err THEN << 0, 0, 0, 0 >> ELSE sg.buf
        fx == BinaryRead(f, offset + 4, 26)
        b  == fx.buf
        n  == Field16(b, 23)
        e  == Field16(b, 25)
        rn == FileRead(f, offset + 30, n)
        re == FileRead(f, offset + 30 + rn.n, e)
        fail(msg) == [err |-> msg, lh |-> NoLH, dataOffset |-> 0]
    IN  IF signature # LE32(LocalFileHeaderSignature) THEN fail("invalid local file header signature")
        ELSE IF fx.err THEN fail("EOF")
        ELSE IF rn.err THEN fail("EOF")
        ELSE IF re.err THEN fail("EOF")
        ELSE [ err |-> "",
               lh  |-> [ VersionNeeded     |-> Field16(b, 1),
                         Flags             |-> Field16(b, 3),
                         CompressionMethod |-> Field16(b, 5),
                         LastModTime       |-> Field16(b, 7),
                         LastModDate       |-> Field16(b, 9),
                         CRC32             |-> SubSeq(b, 11, 14),
                         CompressedSize    |-> Field32(b, 15),
                         UncompressedSize  |-> Field32(b, 19),
                         FilenameLength    |-> n,
                         ExtraFieldLength  |-> e,
                         Filename          |-> rn.buf,
                         ExtraField        |-> re.buf ],
               dataOffset |-> DataOffset(offset, n, e) ]

\* flate.NewReader + io.ReadAll, for streams made of stored blocks (BTYPE 00):
\* per block a header byte, LEN, NLEN = ^LEN, then LEN literal bytes.  A
\* reserved block type (BTYPE 11), a bad NLEN or a truncated stream is an
\* error.  Huffman-coded blocks are outside the modelled subset; no source of
\* this model contains one.
RECURSIVE InflateFrom(_, _, _)
InflateFrom(b, k, out) ==
    IF k > Len(b) THEN [err |-> "unexpected EOF", out |-> << >>]
    ELSE LET final == b[k] % 2
             btype == (b[k] \div 2) % 4
         IN  IF btype = 0
             THEN IF k + 4 > Len(b) THEN [err |-> "unexpected EOF", out |-> << >>]
                  ELSE LET len  == DecLE16(SubSeq(b, k + 1, k + 2))
                           nlen == DecLE16(SubSeq(b, k + 3, k + 4))
                       IN  IF nlen # 65535 - len THEN [err |-> "corrupt input", out |-> << >>]
                           ELSE IF k + 4 + len > Len(b) THEN [err |-> "unexpected EOF", out |-> << >>]
                           ELSE IF final = 1 THEN [err |-> "", out |-> out \o SubSeq(b, k + 5, k + 4 + len)]
                           ELSE InflateFrom(b, k + 5 + len, out \o SubSeq(b, k + 5, k + 4 + len))
             ELSE IF btype = 3 THEN [err |-> "corrupt input", out |-> << >>]
             ELSE [err |-> "huffman block", out |-> << >>]

Inflate(b) == InflateFrom(b, 1, << >>)

\* the reconciliation test looking at the flag bit only
UseDirectorySizes_FlagOnly(lh) == BitAnd(lh.Flags, DataDescriptorFlag) # 0

\* the reconciliation test of extractFile
UseDirectorySizes(lh) == lh.CompressedSize = 0 /\ BitAnd(lh.Flags, DataDescriptorFlag) # 0

\* the method dispatch of extractFile: which branch handles the payload
Dispatch(method) == IF method = MethodDeflate THEN "inflate" ELSE "store"

\* extractFile; besides the error and the bytes it returns, the record keeps
\* the local header as left by the reconciliation (local) and the payload
\* position (dataOffset)
extractFile(f, centralDir) ==
    LET h  == readLocalFileHeader(f, centralDir.LocalHeaderOffset)
        lh == IF UseDirectorySizes(h.lh)
              THEN [h.lh EXCEPT !.CompressedSize = centralDir.CompressedSize,
                                !.UncompressedSize = centralDir.UncompressedSize]
              ELSE h.lh
        r  == FileRead(f, h.dataOffset, lh.CompressedSize)
        z  == Inflate(r.buf)
        fail(msg, l) == [err |-> msg, data |-> << >>, local |-> l, dataOffset |-> h.dataOffset]
    IN  IF h.err # "" THEN [err |-> h.err, data |-> << >>, local |-> NoLH, dataOffset |-> 0]
        ELSE IF r.err THEN fail("EOF", lh)
        ELSE IF Dispatch(lh.CompressionMethod) = "inflate"
             THEN IF z.err # "" THEN fail(z.err, lh)
                  ELSE IF Len(z.out) # lh.UncompressedSize THEN fail("size mismatch", lh)
                  ELSE [err |-> "", data |-> z.out, local |-> lh, dataOffset |-> h.dataOffset]
        ELSE [err |-> "", data |-> r.buf, local |-> lh, dataOffset |-> h.dataOffset]

NoExtract == [err |-> "", data |-> << >>, local |-> NoLH, dataOffset |-> 0]

\* ------------------------------------------------- archives of other writers
\* a stored deflate block holding the bytes d
StoredBlock(d) == << 1 >> \o LE16(Len(d)) \o LE16(65535 - Len(d)) \o d

\* one entry as another writer may lay it out: p gives the name in the
\* directory record (name) and in the local record (lname), the flags and
\* method of both records, the sizes of the local record (lc, lu), the sizes
\* of the directory record (cc, cu), the extra field of each record (lextra,
\* cextra) and the bytes that follow the local record
CraftedLocal(p) ==
    Concat(<< LE32(LocalFileHeaderSignature), LE16(20), LE16(p.flags), LE16(p.method),
              LE16(0), LE16(0), << 0, 0, 0, 0 >>, LE32(p.lc), LE32(p.lu),
              LE16(Len(p.lname)), LE16(Len(p.lextra)), p.lname, p.lextra, p.payload >>)

CraftedCentral(p, localOffset) ==
    Concat(<< LE32(CentralDirectorySignature), LE16(788), LE16(20), LE16(p.flags), LE16(p.method),
              LE16(0), LE16(0), << 0, 0, 0, 0 >>, LE32(p.cc), LE32(p.cu),
              LE16(Len(p.name)), LE16(Len(p.cextra)), LE16(0), LE16(0), LE16(0), << 0, 0, 0, 0 >>,
              LE32(localOffset), p.name, p.cextra >>)

RECURSIVE CraftedLocals(_)
CraftedLocals(ps) == IF ps = << >> THEN << >> ELSE CraftedLocal(Head(ps)) \o CraftedLocals(Tail(ps))

RECURSIVE CraftedCentrals(_, _)
CraftedCentrals(ps, off) ==
    IF ps = << >> THEN << >>
    ELSE CraftedCentral(Head(ps), off) \o CraftedCentrals(Tail(ps), off + Len(CraftedLocal(Head(ps))))

CraftedArchive(ps) ==
    LET body == CraftedLocals(ps)
        dir  == CraftedCentrals(ps, 0)
    IN  body \o dir \o Concat(TrailerChunks(Len(ps), Len(dir), Len(body)))

\* the single-entry layouts: every choice of flags, method, local sizes and
\* directory sizes, 2 * 4 * 2 * 2 * 2 * 2 = 128 in all, numbered
CraftedParams ==
    [ k \in 1..128 |->
        [ name |-> NameA, lname |-> NameA, payload |-> StoredBlock(<< 65 >>),
          flags  |-> << 0, DataDescriptorFlag >>[((k - 1) % 2) + 1],
          method |-> << 0, 8, 1, 99 >>[(((k - 1) \div 2) % 4) + 1],
          lc     |-> << 0, 6 >>[(((k - 1) \div 8) % 2) + 1],
          lu     |-> << 0, 1 >>[(((k - 1) \div 16) % 2) + 1],
          cc     |-> << 6, 2 >>[(((k - 1) \div 32) % 2) + 1],
          cu     |-> << 1, 6 >>[(((k - 1) \div 64) % 2) + 1],
          lextra |-> << >>, cextra |-> << >> ] ]

CraftedArchives == [k \in 1..128 |-> CraftedArchive(<< CraftedParams[k] >>)]

\* entries for archives of several records: one that extracts (stored), one
\* whose inflated size differs from the declared one, one whose deflate
\* stream is corrupt, one under "__MACOSX/"
EntryGood ==
    [ name |-> NameA, lname |-> NameA, payload |-> StoredBlock(<< 65 >>), flags |-> 0, method |-> 0,
      lc |-> 6, lu |-> 6, cc |-> 6, cu |-> 6, lextra |-> << >>, cextra |-> << >> ]
EntrySizeMismatch == [EntryGood EXCEPT !.name = NameUtf, !.method = 8, !.lu = 0]
EntryCorrupt == [EntryGood EXCEPT !.name = NameBad, !.method = 8, !.payload = << 7, 0, 0, 0, 0, 0 >>]
EntryMac == [EntryGood EXCEPT !.name = NameMac]

\* entries whose variable-length fields add up to 65536 bytes: a 65535-byte
\* name with a one-byte extra field in the directory record (EntryWideDir) or
\* in the local record (EntryWideLocal), the other record naming the entry "a"
NameMax == [k \in 1..MaxNameLen |-> 97]
EntryWideDir == [EntryGood EXCEPT !.name = NameMax, !.cextra = << 1 >>]
EntryWideLocal ==
    [EntryGood EXCEPT !.lname = NameMax, !.lextra = << 1 >>, !.payload = << 88 >>,
                      !.lc = 1, !.lu = 1, !.cc = 1, !.cu = 1]

MultiArchives ==
    << CraftedArchive(<< EntrySizeMismatch, EntryGood >>),
      CraftedArchive(<< EntryCorrupt, EntryGood >>),
      CraftedArchive(<< EntryGood, EntrySizeMismatch, EntryCorrupt >>),
      CraftedArchive(<< EntryMac, EntryCorrupt, EntryGood >>),
      CraftedArchive(<< EntryGood, EntryMac >>),
      CraftedArchive(<< EntryWideDir, EntryGood >>),
      CraftedArchive(<< EntryWideLocal, EntryGood >>) >>

\* byte sources for the trailer search; WindowLen is the longest window
WindowLen == EOCDMinSize + maxCommentSize
SigAt(len, ps) ==
    [ k \in 1..len |-> IF \E q \in ps : k - q \in 1..4
                       THEN EOCDSigBytes[k - (CHOOSE q \in ps : k - q \in 1..4)]
                       ELSE 0 ]

RawSources ==
    << SigAt(EOCDMinSize - 1, { 0 }),
      SigAt(EOCDMinSize, {}),
      SigAt(EOCDMinSize, { 0 }),
      SigAt(EOCDMinSize, { 18 }),
      SigAt(EOCDMinSize + 8, { 0, 4 }),
      SigAt(2 * EOCDMinSize, { 1, 22 }),
      SigAt(WindowLen + 1, { 0 }),
      SigAt(WindowLen + 1, { 1 }),
      SigAt(WindowLen + 1, { 2 }),
      SigAt(WindowLen + 1, { 0, 100 }),
      SigAt(WindowLen + 2, { 1, 2 }) >>

\* the byte sources ReadZip may be handed, in a fixed order, so that an open
\* file is named by its place in the order
Sources == CraftedArchives \o MultiArchives \o RawSources

\* what main's *os.File stands for: nothing opened, the bytes the writer's
\* sink holds, or one of the byte sources
NoFile == [kind |-> "none", index |-> 0]
WrittenFile == [kind |-> "written", index |-> 0]
ForeignFiles == [kind : { "foreign" }, index : 1..Len(Sources)]

\* ------------------------------------------------------------------- state
VARIABLES
    sink,        \* bytes the io.Writer has accepted
    sinkLimit,   \* how many bytes the io.Writer accepts
    files,       \* zw.files
    offset,      \* zw.offset
    phase,       \* the caller: "adding" until it calls Close, then "closed"
    broken,      \* a write to the sink has failed
    last,        \* the last writer call: operation, argument sizes, error
    added,       \* the (name, data) pairs of the AddFile calls that returned nil
    localAt,     \* sink position at which each of those calls began to write
    cdStart,     \* sink position when Close began
    eocdStart,   \* sink position at which Close began the trailer
    fd,          \* the file main opened and handed to ReadZip
    rpc,         \* ReadZip: "idle", "find", "parse", "loop", "done", "panic"
    rerr,        \* ReadZip: the error it panicked with
    eocdPos,     \* ReadZip: result of findEOCD
    eocd,        \* ReadZip: result of parseEOCD
    ri,          \* ReadZip: loop counter i
    roff,        \* ReadZip: offset of the next directory record
    log,         \* ReadZip: per iteration, the record read and what became of it
    clock,       \* a time.Time handed to timeToMSDos
    stamp        \* what timeToMSDos returned for it

wvars == << sink, sinkLimit, files, offset, phase, broken, last, added, localAt, cdStart, eocdStart >>
rvars == << fd, rpc, rerr, eocdPos, eocd, ri, roff, log >>
tvars == << clock, stamp >>
vars == << sink, sinkLimit, files, offset, phase, broken, last, added, localAt, cdStart, eocdStart,
           fd, rpc, rerr, eocdPos, eocd, ri, roff, log, clock, stamp >>

\* the bytes of the file ReadZip works on
file ==
    IF fd.kind = "written" THEN sink
    ELSE IF fd.kind = "foreign" THEN Sources[fd.index]
    ELSE << >>

NoCall == [op |-> "none", nameLen |-> 0, dataNil |-> FALSE, dataLen |-> 0, err |-> ""]

\* a time.Time of the Unix epoch, not yet converted
Epoch == [year |-> 1970, month |-> 1, day |-> 1, hour |-> 0, minute |-> 0, second |-> 0]
NoStamp == [done |-> FALSE, dosDate |-> 0, dosTime |-> 0]

\* a writer on a sink that has accepted nothing; no archive opened
Fresh ==
    /\ sink = << >>
    /\ files = << >>
    /\ offset = 0
    /\ phase = "adding"
    /\ broken = FALSE
    /\ last = NoCall
    /\ added = << >>
    /\ localAt = << >>
    /\ cdStart = -1
    /\ eocdStart = -1
    /\ fd = NoFile
    /\ rpc = "idle"
    /\ rerr = ""
    /\ eocdPos = 0
    /\ eocd = NoEOCD
    /\ ri = 0
    /\ roff = 0
    /\ log = << >>

\* NewZipWriter(w) on a sink that has accepted nothing; no archive opened
Init ==
    /\ Fresh
    /\ sinkLimit \in SinkLimits
    /\ clock = Epoch
    /\ stamp = NoStamp

\* zw.AddFile(name, data) at wall-clock time t
AddFile(name, data, t) ==
    LET invalid      == ValidateAddFile(name, data)
        crc          == ChecksumTable[data.bytes]
        headerOffset == offset
        dos          == timeToMSDos(t)
        w            == WriteAll(sink, sinkLimit, LocalChunks(name, data.bytes, dos, crc))
        call(e)      == [op |-> "AddFile", nameLen |-> Len(name), dataNil |-> data.nil,
                         dataLen |-> Len(data.bytes), err |-> e]
    IN  /\ phase = "adding"
        /\ ~broken
        /\ rpc = "idle"
        /\ Len(files) < MaxFiles
        /\ IF invalid # ""
           THEN /\ last' = call(invalid)
                /\ UNCHANGED << sink, sinkLimit, files, offset, broken, added, localAt >>
           ELSE IF ~w.ok
           THEN /\ sink' = w.sink
                /\ sinkLimit' = AfterFailure(sinkLimit)
                /\ broken' = TRUE
                /\ last' = call("write error")
                /\ UNCHANGED << files, offset, added, localAt >>
           ELSE /\ sink' = w.sink
                /\ files' = Append(files, MakeRecord(name, data.bytes, dos, crc, headerOffset))
                /\ offset' = offset + LocalRecordSize(name, data.bytes)
                /\ added' = Append(added, [name |-> name, data |-> data.bytes])
                /\ localAt' = Append(localAt, Len(sink))
                /\ last' = call("")
                /\ UNCHANGED << sinkLimit, broken >>
        /\ UNCHANGED << phase, cdStart, eocdStart >>
        /\ UNCHANGED rvars
        /\ UNCHANGED tvars

\* zw.Close()
Close ==
    LET r == CloseRun(sink, sinkLimit, offset, files)
    IN  /\ phase = "adding"
        /\ rpc = "idle"
        /\ sink' = r.sink
        /\ offset' = r.offset
        /\ phase' = "closed"
        /\ broken' = (broken \/ ~r.ok)
        /\ cdStart' = Len(sink)
        /\ eocdStart' = r.eocdAt
        /\ last' = [op |-> "Close", nameLen |-> 0, dataNil |-> FALSE, dataLen |-> 0,
                    err |-> IF r.ok THEN "" ELSE "write error"]
        /\ sinkLimit' = IF r.ok THEN sinkLimit ELSE AfterFailure(sinkLimit)
        /\ UNCHANGED << files, added, localAt >>
        /\ UNCHANGED rvars
        /\ UNCHANGED tvars

\* ReadZip is handed the archive the writer produced
OpenWritten ==
    /\ phase = "closed"
    /\ ~broken
    /\ rpc = "idle"
    /\ fd' = WrittenFile
    /\ rpc' = "find"
    /\ UNCHANGED << rerr, eocdPos, eocd, ri, roff, log >>
    /\ UNCHANGED wvars
    /\ UNCHANGED tvars

\* ReadZip is handed a file that some other program produced
OpenForeign ==
    /\ phase = "adding"
    /\ last = NoCall
    /\ sinkLimit = NoLimit
    /\ rpc = "idle"
    /\ fd' \in ForeignFiles
    /\ rpc' = "find"
    /\ UNCHANGED << rerr, eocdPos, eocd, ri, roff, log >>
    /\ UNCHANGED wvars
    /\ UNCHANGED tvars

\* ReadZip: findEOCD, panic on error
ReadZipFind ==
    LET r == findEOCD(file)
    IN  /\ rpc = "find"
        /\ eocdPos' = r.pos
        /\ rpc' = IF r.err # "" THEN "panic" ELSE "parse"
        /\ rerr' = r.err
        /\ UNCHANGED << fd, eocd, ri, roff, log >>
        /\ UNCHANGED wvars
        /\ UNCHANGED tvars

\* ReadZip: parseEOCD, panic on error; sets up the loop
ReadZipParse ==
    LET r == parseEOCD(file, eocdPos)
    IN  /\ rpc = "parse"
        /\ eocd' = r.eocd
        /\ roff' = r.eocd.CentralDirOffset
        /\ ri' = 0
        /\ rpc' = IF r.err # "" THEN "panic" ELSE "loop"
        /\ rerr' = r.err
        /\ UNCHANGED << fd, eocdPos, log >>
        /\ UNCHANGED wvars
        /\ UNCHANGED tvars

\* ReadZip: one iteration of the loop over the directory, or its exit
ReadZipEntry ==
    LET r    == readCentralDirectoryEntry(file, roff)
        skip == HasPrefix(r.cd.Filename, MacPrefix)
        x    == extractFile(file, r.cd)
    IN  /\ rpc = "loop"
        /\ IF ri >= eocd.TotalEntries
           THEN /\ rpc' = "done"
                /\ UNCHANGED << rerr, ri, roff, log >>
           ELSE IF r.err # ""
           THEN /\ rpc' = "panic"
                /\ rerr' = r.err
                /\ UNCHANGED << ri, roff, log >>
           ELSE /\ log' = Append(log, [ at      |-> roff,
                                        cd      |-> r.cd,
                                        outcome |-> IF skip THEN "skipped"
                                                    ELSE IF x.err # "" THEN "error"
                                                    ELSE "extracted",
                                        ex      |-> IF skip THEN NoExtract ELSE x ])
                /\ roff' = r.nextOffset
                /\ ri' = ri + 1
                /\ UNCHANGED << rpc, rerr >>
        /\ UNCHANGED << fd, eocdPos, eocd >>
        /\ UNCHANGED wvars
        /\ UNCHANGED tvars

Next ==
    \/ \E name \in Names, data \in Datas, t \in Times : AddFile(name, data, t)
    \/ Close
    \/ OpenWritten
    \/ OpenForeign
    \/ ReadZipFind
    \/ ReadZipParse
    \/ ReadZipEntry

Spec == Init /\ [][Next]_vars

\* timeToMSDos on its own: a time.Time is converted once
Clocks ==
    [ year : { 1970, 1979, 1980, 2023, 2107, 2108 }, month : { 1, 12 }, day : { 1, 31 },
      hour : { 0, 23 }, minute : { 0, 59 }, second : { 0, 1, 59 } ]

InitTime ==
    /\ Fresh
    /\ sinkLimit = NoLimit
    /\ clock \in Clocks
    /\ stamp = NoStamp

Convert ==
    /\ ~stamp.done
    /\ stamp' = [done |-> TRUE, dosDate |-> timeToMSDos(clock).dosDate,
                                 dosTime |-> timeToMSDos(clock).dosTime]
    /\ UNCHANGED clock
    /\ UNCHANGED wvars
    /\ UNCHANGED rvars

NextTime == Convert

SpecTime == InitTime /\ [][NextTime]_vars

TypeOK ==
    /\ phase \in { "adding", "closed" }
    /\ rpc \in { "idle", "find", "parse", "loop", "done", "panic" }
    /\ Len(files) = Len(added)
    /\ Len(files) <= MaxFiles

\* ---------------------------------------------------------------- properties
\* n directory records read one after the other from offset off
RECURSIVE DirectoryRecords(_, _, _)
DirectoryRecords(f, off, n) ==
    IF n = 0 THEN [ok |-> TRUE, recs |-> << >>, next |-> off]
    ELSE LET r == readCentralDirectoryEntry(f, off)
         IN  IF r.err # "" THEN [ok |-> FALSE, recs |-> << >>, next |-> off]
             ELSE LET rest == DirectoryRecords(f, r.nextOffset, n - 1)
                  IN  [ok |-> rest.ok, recs |-> << r.cd >> \o rest.recs, next |-> rest.next]

\* the reader path over f: findEOCD, parseEOCD, then for each declared record
\* readCentralDirectoryEntry and extractFile
ReadPath(f) ==
    LET e == findEOCD(f)
        p == parseEOCD(f, e.pos)
        d == DirectoryRecords(f, p.eocd.CentralDirOffset, p.eocd.TotalEntries)
    IN  IF e.err # "" \/ p.err # "" THEN [ok |-> FALSE, eocd |-> NoEOCD, entries |-> << >>]
        ELSE [ ok      |-> d.ok,
               eocd    |-> p.eocd,
               entries |-> [k \in 1..Len(d.recs) |-> [cd |-> d.recs[k], ex |-> extractFile(f, d.recs[k])]] ]

\* every AddFile call so far wrote its record and Close wrote the directory
\* and the trailer
ClosedOk == phase = "closed" /\ ~broken

\* the trailer Close wrote, read at the sink position where Close began it
WrittenTrailer == parseEOCD(sink, eocdStart).eocd

\* the directory records Close wrote, read from the sink position where Close
\* began
WrittenDirectory == DirectoryRecords(sink, cdStart, Len(added))

C2_EmptyArchiveParses ==
    (ClosedOk /\ files = << >>) =>
        /\ findEOCD(sink).err = ""
        /\ findEOCD(sink).pos = eocdStart
        /\ parseEOCD(sink, findEOCD(sink).pos).eocd.TotalEntries = 0
        /\ (fd = WrittenFile /\ rpc # "idle" => rpc # "panic" /\ log = << >>)

\* C3: after N successful AddFile calls, Close writes exactly N directory
\* records, the i-th for the i-th added entry, directly followed by the
\* trailer, and both entry counts of the trailer are N.
C3_DirectoryCount ==
    ClosedOk =>
        /\ WrittenDirectory.ok
        /\ Len(WrittenDirectory.recs) = Len(added)
        /\ WrittenDirectory.next = eocdStart
        /\ SubSeq(sink, eocdStart + 1, eocdStart + 4) = EOCDSigBytes
        /\ \A k \in 1..Len(added) :
              /\ WrittenDirectory.recs[k].Filename = added[k].name
              /\ WrittenDirectory.recs[k].UncompressedSize = Len(added[k].data)
              /\ WrittenDirectory.recs[k].LocalHeaderOffset = localAt[k]
        /\ WrittenTrailer.EntriesOnDisk = Len(added)
        /\ WrittenTrailer.TotalEntries = Len(added)

C3_Witness ==
    /\ ClosedOk
    /\ Len(added) = 2
    /\ added[1].name # added[2].name
    /\ WrittenTrailer.TotalEntries = 2

\* C4: the trailer's directory offset is the sink position of the first
\* directory record (of the trailer itself when there is none), its directory
\* size is the number of directory bytes written, and offset + size is the
\* sink position of the trailer's signature.
C4_TrailerGeometry ==
    ClosedOk =>
        /\ WrittenTrailer.CentralDirOffset = cdStart
        /\ WrittenTrailer.CentralDirSize = eocdStart - cdStart
        /\ WrittenTrailer.CentralDirOffset + WrittenTrailer.CentralDirSize = eocdStart
        /\ SubSeq(sink, eocdStart + 1, eocdStart + 4) = EOCDSigBytes
        /\ eocdStart + EOCDMinSize = Len(sink)
        /\ IF added = << >>
           THEN WrittenTrailer.CentralDirOffset = eocdStart
           ELSE SubSeq(sink, cdStart + 1, cdStart + 4) = LE32(CentralDirectorySignature)

C4_Witness ==
    /\ ClosedOk
    /\ Len(added) = 2
    /\ WrittenTrailer.CentralDirOffset > 0
    /\ WrittenTrailer.CentralDirSize > 0

\* sum over the entries before the k-th of 4 + 26 + len(name) + len(data)
RECURSIVE SizeBefore(_, _)
SizeBefore(as, k) ==
    IF k <= 1 THEN 0
    ELSE SizeBefore(as, k - 1) + 4 + 26 + Len(as[k - 1].name) + Len(as[k - 1].data)

\* C5: the local-header offset in the i-th directory record is the sink
\* position where the i-th local record began, which is the sum of the sizes
\* of the earlier local records; the offsets increase strictly, the local
\* records do not overlap and each offset points at a local-record signature.
C5_LocalOffsets ==
    ClosedOk =>
        /\ WrittenDirectory.ok
        /\ \A k \in 1..Len(added) :
              LET o == WrittenDirectory.recs[k].LocalHeaderOffset
              IN  /\ o = localAt[k]
                  /\ o = SizeBefore(added, k)
                  /\ SubSeq(sink, o + 1, o + 4) = LE32(LocalFileHeaderSignature)
                  /\ k > 1 =>
                        LET q == WrittenDirectory.recs[k - 1].LocalHeaderOffset
                        IN  /\ q < o
                            /\ q + 30 + Len(added[k - 1].name) + Len(added[k - 1].data) <= o

C5_Witness ==
    /\ ClosedOk
    /\ Len(added) = 2
    /\ added[1].data # << >>
    /\ WrittenDirectory.recs[2].LocalHeaderOffset = 30 + Len(added[1].name) + Len(added[1].data)

\* a step of AddFile: the caller is still adding and the call record is AddFile's
AddFileStep == phase = "adding" /\ phase' = "adding" /\ rpc = "idle" /\ rpc' = "idle" /\ last'.op = "AddFile"

\* C6: AddFile with an empty name, a name longer than 65535 bytes or a nil
\* payload returns an error and leaves sink, entry sequence and offset as they
\* were; with a valid name and an empty non-nil payload it is accepted (unless
\* the sink fails) and appends an entry of size 0.
C6_InvalidArguments ==
    [][ AddFileStep =>
          /\ (last'.nameLen = 0 \/ last'.nameLen > 65535 \/ last'.dataNil) =>
                /\ last'.err # ""
                /\ sink' = sink
                /\ files' = files
                /\ offset' = offset
          /\ (last'.nameLen \in 1..65535 /\ ~last'.dataNil /\ last'.dataLen = 0
                /\ last'.err # "write error") =>
                /\ last'.err = ""
                /\ Len(files') = Len(files) + 1
                /\ files'[Len(files')].compressedSize = 0
                /\ files'[Len(files')].uncompressedSize = 0
                /\ Len(sink') = Len(sink) + 30 + last'.nameLen
      ]_vars

C6_Witness ==
    /\ phase = "adding"
    /\ last.op = "AddFile"
    /\ last.dataNil
    /\ last.err = "data cannot be nil"
    /\ Len(files) >= 1
    /\ offset > 0

\* C7: in both records of every written entry the UTF-8 flag (0x0800) is set
\* exactly when the name is valid UTF-8, so both records carry the same flags.
C7_Utf8FlagBothRecords ==
    ClosedOk =>
        \A k \in 1..Len(added) :
            LET lf == readLocalFileHeader(sink, localAt[k]).lh.Flags
                cf == WrittenDirectory.recs[k].Flags
                u  == IF isValidUTF8(added[k].name) THEN 1 ELSE 0
            IN  /\ (lf \div UTF8Flag) % 2 = u
                /\ (cf \div UTF8Flag) % 2 = u
                /\ lf = cf

\* the trailer search as specified: no result for a source shorter than 22
\* bytes or without the signature in the window [W, L), else the last
\* occurrence in the window
RefFindEOCD(f) ==
    LET L == Len(f)
        W == Max(0, L - 22 - 65535)
        occ == { q \in W..(L - 4) : SubSeq(f, q + 1, q + 4) = << 80, 75, 5, 6 >> }
    IN  IF L < 22 \/ occ = {} THEN [found |-> FALSE, pos |-> 0]
        ELSE [found |-> TRUE, pos |-> CHOOSE q \in occ : \A o \in occ : o <= q]

FindErrors == { "file too small", "EOCD signature not found" }

\* C8: findEOCD fails for a source shorter than 22 bytes or without the
\* trailer signature in the window, and otherwise returns the offset of the
\* last occurrence in the window, also when that is the window's first byte.
C8_FindEOCDReference ==
    rpc \notin { "idle", "find" } =>
        IF RefFindEOCD(file).found
        THEN rerr \notin FindErrors /\ eocdPos = RefFindEOCD(file).pos
        ELSE rpc = "panic" /\ rerr \in FindErrors

\* the entries of the log for which extractFile read a local record and a payload
Extracted(e) ==
    /\ e.outcome # "skipped"
    /\ readLocalFileHeader(file, e.cd.LocalHeaderOffset).err = ""
    /\ e.ex.err # "EOF"

\* the bytes extractFile read as payload for the log entry e
PayloadOf(e) == FileRead(file, e.ex.dataOffset, e.ex.local.CompressedSize).buf

\* C9: extractFile returns the payload unchanged for method 0, the inflated
\* bytes for method 8, and fails for every other method.
C9_MethodDispatch ==
    \A k \in 1..Len(log) :
        LET e == log[k]
            m == Field16(file, e.cd.LocalHeaderOffset + 9)
        IN  Extracted(e) =>
              IF m = 0 THEN e.ex.err = "" /\ e.ex.data = PayloadOf(e)
              ELSE IF m = 8 THEN e.ex.err = "" => e.ex.data = Inflate(PayloadOf(e)).out
              ELSE e.ex.err # ""

\* the sizes extractFile has to use for the log entry e: those of the
\* directory record when the local compressed size is 0 and bit 0x0008 of the
\* local flags is set, those of the local record otherwise
DeferredSizes(e) ==
    /\ Field32(file, e.cd.LocalHeaderOffset + 19) = 0
    /\ (Field16(file, e.cd.LocalHeaderOffset + 7) \div 8) % 2 = 1

ExpectedSizes(e) ==
    IF DeferredSizes(e)
    THEN [c |-> e.cd.CompressedSize, u |-> e.cd.UncompressedSize]
    ELSE [c |-> Field32(file, e.cd.LocalHeaderOffset + 19),
          u |-> Field32(file, e.cd.LocalHeaderOffset + 23)]

\* C10: extractFile reads as many payload bytes, and expects as many inflated
\* bytes, as the directory record says exactly when the local compressed size
\* is 0 and local flag bit 0x0008 is set; otherwise as the local record says.
C10_SizeReconciliation ==
    \A k \in 1..Len(log) :
        LET e == log[k]
            m == Field16(file, e.cd.LocalHeaderOffset + 9)
        IN  (e.outcome # "skipped" /\ readLocalFileHeader(file, e.cd.LocalHeaderOffset).err = "") =>
              /\ e.ex.local.CompressedSize = ExpectedSizes(e).c
              /\ e.ex.local.UncompressedSize = ExpectedSizes(e).u
              /\ (e.ex.err = "" /\ m # 8) => Len(e.ex.data) = ExpectedSizes(e).c
              /\ (e.ex.err = "" /\ m = 8) => Len(e.ex.data) = ExpectedSizes(e).u
              /\ (m = 8 /\ e.ex.err = "size mismatch") =>
                    Len(Inflate(FileRead(file, e.ex.dataOffset, ExpectedSizes(e).c).buf).out) # ExpectedSizes(e).u

C10_Witness ==
    \E k \in 1..Len(log) :
        /\ log[k].outcome = "extracted"
        /\ DeferredSizes(log[k])
        /\ log[k].cd.CompressedSize = 6
        /\ Field32(file, log[k].cd.LocalHeaderOffset + 23) # log[k].cd.UncompressedSize
        /\ Len(log[k].ex.data) = log[k].cd.CompressedSize

\* ---------------------------------------------------------------------------
\* Offsets computed from 16-bit length fields

\* the offset ReadZip used for the record after log entry k: the place where
\* the next record was read, or the running offset after the last one
NextUsed(k) == IF k < Len(log) THEN log[k + 1].at ELSE roff

\* the three variable lengths of the directory record at offset at, as the
\* bytes of the source give them
DirLengths(at) ==
    [ n |-> Field16(file, at + 29), e |-> Field16(file, at + 31), c |-> Field16(file, at + 33) ]

\* C13: the offset readCentralDirectoryEntry returns for the next record is
\* offset + 4 + 42 + n + e + c as a plain sum of the record's three lengths,
\* and a record is only ever read where the directory-record signature stands.
C13_NextOffsetPlainSum ==
    /\ \A k \in 1..Len(log) :
          LET at == log[k].at
              l  == DirLengths(at)
          IN  /\ SubSeq(file, at + 1, at + 4) = LE32(CentralDirectorySignature)
              /\ NextUsed(k) = at + 4 + 42 + l.n + l.e + l.c
    /\ (rpc = "loop" /\ ri < eocd.TotalEntries
          /\ FileRead(file, roff, 4).buf # LE32(CentralDirectorySignature))
       => readCentralDirectoryEntry(file, roff).err # ""

\* C14: extractFile reads its payload at local offset + 4 + 26 + n + e, a
\* plain sum of the local record's two lengths, and reads exactly
\* `compressed size` bytes there.
C14_PayloadOffsetPlainSum ==
    \A k \in 1..Len(log) :
        LET e   == log[k]
            lho == e.cd.LocalHeaderOffset
            n   == Field16(file, lho + 27)
            x   == Field16(file, lho + 29)
            at  == lho + 4 + 26 + n + x
        IN  (e.outcome # "skipped" /\ readLocalFileHeader(file, lho).err = "") =>
              /\ e.ex.dataOffset = at
              /\ (e.ex.err = "" /\ Field16(file, lho + 9) = 0) =>
                    e.ex.data = SubSeq(file, at + 1, at + e.ex.local.CompressedSize)

\* ---------------------------------------------------------------------------
\* Enumeration of the directory

\* the directory as the bytes of the source lay it out: the offsets of n
\* records from offset at on, each standing where the one before it ends, as
\* long as each bears the directory-record signature and lies whole inside the
\* source
RECURSIVE RefDirectory(_, _)
RefDirectory(at, n) ==
    IF n = 0 THEN [ok |-> TRUE, offs |-> << >>]
    ELSE LET l   == DirLengths(at)
             end == at + 4 + 42 + l.n + l.e + l.c
         IN  IF \/ at + 4 > Len(file)
                \/ SubSeq(file, at + 1, at + 4) # LE32(CentralDirectorySignature)
                \/ end > Len(file)
             THEN [ok |-> FALSE, offs |-> << >>]
             ELSE LET rest == RefDirectory(end, n - 1)
                  IN  [ok |-> rest.ok, offs |-> << at >> \o rest.offs]

\* C11: when every directory record bears a valid signature, ReadZip reads
\* exactly the declared number of records, each at its place in directory
\* order, whatever became of the records before it: after a failed extractFile
\* the next record is read and extracted as it would have been otherwise.
C11_EnumerationContinues ==
    LET d == RefDirectory(eocd.CentralDirOffset, eocd.TotalEntries)
    IN  (rpc \in { "loop", "done" } /\ d.ok) =>
          /\ ri = Len(log)
          /\ \A k \in 1..Len(log) :
                /\ log[k].at = d.offs[k]
                /\ log[k].outcome # "skipped" => log[k].ex = extractFile(file, log[k].cd)
          /\ rpc = "done" => Len(log) = eocd.TotalEntries
          /\ (rpc = "loop" /\ ri < eocd.TotalEntries) =>
                /\ roff = d.offs[ri + 1]
                /\ readCentralDirectoryEntry(file, roff).err = ""

\* the name begins with the nine bytes "__MACOSX/"
UnderMacosx(name) ==
    /\ Len(name) >= 9
    /\ \A i \in 1..9 : name[i] = << 95, 95, 77, 65, 67, 79, 83, 88, 47 >>[i]

WriteBoundaries(nameLen) ==
    { 0, 4, 6, 8, 10, 12, 14, 18, 22, 26, 28, 30, 30 + nameLen }

\* C15: when a write fails in AddFile, the call returns the error having
\* written only whole writes up to the failed one and nothing after it, appends
\* no record and leaves the offset alone; a Close that succeeds afterwards
\* writes a directory of the recorded entries only and a trailer whose
\* directory offset is the sum of their sizes, not the place in the sink where
\* the directory stands.
C15_WriteFailure ==
    /\ [][ (AddFileStep /\ last'.err = "write error") =>
              /\ files' = files
              /\ offset' = offset
              /\ Len(sink') - Len(sink) \in WriteBoundaries(last'.nameLen)
              /\ Len(sink') - Len(sink) < 30 + last'.nameLen + last'.dataLen
              /\ SubSeq(sink', 1, Len(sink)) = sink
              /\ Len(sink') - Len(sink) >= 4 =>
                    SubSeq(sink', Len(sink) + 1, Len(sink) + 4) = LE32(LocalFileHeaderSignature)
         ]_vars
    /\ [](  (phase = "closed" /\ broken /\ last.err = "") =>
              /\ WrittenTrailer.TotalEntries = Len(added)
              /\ WrittenTrailer.CentralDirOffset = SizeBefore(added, Len(added) + 1)
              /\ WrittenTrailer.CentralDirOffset = offset - WrittenTrailer.CentralDirSize
              /\ cdStart >= WrittenTrailer.CentralDirOffset
              /\ eocdStart - cdStart = WrittenTrailer.CentralDirSize
              /\ WrittenDirectory.ok
              /\ \A k \in 1..Len(added) : WrittenDirectory.recs[k].Filename = added[k].name )

C15_Witness ==
    /\ phase = "closed"
    /\ broken
    /\ last.err = ""
    /\ Len(added) = 1
    /\ cdStart > WrittenTrailer.CentralDirOffset
    /\ WrittenTrailer.CentralDirOffset = 30 + Len(added[1].name) + Len(added[1].data)
    /\ Len(sink) = eocdStart + EOCDMinSize

\* ---------------------------------------------------------------------------
\* MS-DOS timestamps

\* C12: the date word holds year-1980 (0 before 1980) in its top 7 bits, the
\* month in the next 4 and the day in the low 5; the time word holds the hour
\* in its top 5 bits, the minute in the next 6 and seconds/2 in the low 5;
\* both are 16-bit words.
C12_DosPacking ==
    stamp.done =>
        LET d == stamp.dosDate
            t == stamp.dosTime
            y == IF clock.year < 1980 THEN 0 ELSE clock.year - 1980
        IN  /\ d \in 0..65535
            /\ t \in 0..65535
            /\ d \div 512 = y
            /\ (d \div 32) % 16 = clock.month
            /\ d % 32 = clock.day
            /\ t \div 2048 = clock.hour
            /\ (t \div 32) % 64 = clock.minute
            /\ t % 32 = clock.second \div 2

====
